---- MODULE Spec2Model ----
(***************************************************************************)
(* A model of EpsteinClient (remote-mcp-authless/src/client.ts) and of the *)
(* MCP tool handlers that call it (remote-mcp-authless/src/index.ts).      *)
(*                                                                         *)
(* One step of the model is one run of an async function between two       *)
(* awaits: a call runs synchronously up to its first fetch, and every      *)
(* arrival of a response runs the code that follows the await up to the    *)
(* next fetch, the return or the throw.                                    *)
(***************************************************************************)
EXTENDS Integers, Sequences, FiniteSets, TLC

\* ------------------------------------------------------------------ bounds
MaxTotal == 21      \* longest ranked list the server holds
MaxSkip == 20       \* largest skip argument
MaxLimit == 15      \* largest n argument
MaxMetaHits == 2    \* longest hit list with mixed file names
MaxBranchLen == 3   \* longest result list of one branch of a multi-query search
MaxAggSkip == 1     \* largest skip of a multi-query search
MaxAggLimit == 2    \* largest limit of a multi-query search
MaxLoosePages == 3  \* pages whose length a server with an unreliable total chooses

\* ------------------------------------------------------- program constants
PageSize == 10                      \* the 10 of skip / 10, skip % 10, (page + 1) * 10
DEFAULT_N == 10                     \* n: number = 10
DEFAULT_SKIP == 0                   \* skip: number = 0
\* Number.MAX_SAFE_INTEGER is 2^53 - 1; TLC's integers are 32 bits wide, so the
\* model takes the largest value TLC holds.  Only "larger than any number of
\* results a run collects" is used of it.
MAX_SAFE_INTEGER == 2147483647

VARIABLES
    server,     \* what the search endpoint holds: the ranked hit list of the query
    call,       \* per call of a client method: its arguments, locals and outcome
    tool,       \* per call: the MCP tool response, when the call came from a tool
    fallback,   \* per call: the metadata tool's request to the secondary site
    agg         \* the multi-query aggregation in progress

vars == <<server, call, tool, fallback, agg>>

CallIds == {1}

\* --------------------------------------------------------------- utilities
Min(a, b) == IF a < b THEN a ELSE b
Max(a, b) == IF a > b THEN a ELSE b

\* s has sub as a substring (String.prototype.includes)
Contains(s, sub) ==
    \E i \in 1..(Len(s) - Len(sub) + 1) : SubSeq(s, i, i + Len(sub) - 1) = sub

\* An optional argument: <<>> when absent, <<v>> when given.
Absent == <<>>
Given(v) == <<v>>
\* A default parameter value (n: number = 10; z.number().optional().default(10)).
DefaultArg(opt, d) == IF opt = Absent THEN d ELSE opt[1]

\* ------------------------------------------------------------- the server
Queries == {"maxwell"}
FileNames == {"EFTA1.pdf", "efta1.pdf", "notes.pdf"}
HttpErrors == {403, 500}

StatusText(s) == IF s = 403 THEN "Forbidden" ELSE "Internal Server Error"

\* EpsteinHit, reduced to the _source fields the client compares or copies.
Hit(id, name) == [_source |-> [documentId |-> id, ORIGIN_FILE_NAME |-> name]]

\* A ranked list of T records, as the client's tests build it (doc-i, file-i.pdf).
RankedList(T) ==
    [i \in 1..T |-> Hit("doc-" \o ToString(i), "file-" \o ToString(i) \o ".pdf")]

\* Short lists whose hits carry any of the file names, for getMetadata.
NamedLists ==
    UNION {{[i \in 1..k |-> Hit("doc-" \o ToString(i), names[i])]
            : names \in [1..k -> FileNames]} : k \in 1..MaxMetaHits}

Servers == {RankedList(T) : T \in 0..MaxTotal} \cup NamedLists

\* The page the server serves at index p: records 10p+1 .. min(10p+10, T).
PageHits(list, p) ==
    SubSeq(list, p * PageSize + 1, Min(p * PageSize + PageSize, Len(list)))

\* hits.total: number | { value: number; relation: string }
TotalShapes == {"number", "object"}
TotalInfo(shape, T) ==
    IF shape = "number" THEN [type |-> "number", number |-> T]
    ELSE [type |-> "object", value |-> T, relation |-> "eq"]

\* The JSON body of a successful response (EpsteinSearchResponse).
SearchResponse(list, p, shape) ==
    [hits |-> [total |-> TotalInfo(shape, Len(list)), hits |-> PageHits(list, p)]]

\* A server whose total cannot be relied on: it reports the same total with
\* every page, and serves pages of any length up to the page size, whatever
\* the total says; past the last page it knows, pages are empty.
LoosePageLens == {0, PageSize \div 2, PageSize}
LooseServers ==
    {[total |-> T, lens |-> lens] : T \in 0..MaxTotal, lens \in [1..MaxLoosePages -> LoosePageLens]}

\* Such servers whose pages may also be longer than the page size.
LongPageLens == {0, PageSize, PageSize + PageSize \div 2}
LongServers ==
    {[total |-> T, lens |-> lens] : T \in 0..MaxTotal, lens \in [1..MaxLoosePages -> LongPageLens]}

\* How many hits the page at index p of such a server has.
LoosePageLen(srv, p) == IF p + 1 \in DOMAIN srv.lens THEN srv.lens[p + 1] ELSE 0

\* The hits of the page at index p of such a server.
LoosePageHits(srv, p) ==
    [i \in 1..LoosePageLen(srv, p) |->
        Hit("doc-" \o ToString(p * PageSize + i), "file-" \o ToString(p * PageSize + i) \o ".pdf")]

\* The JSON body such a server answers a search request with.
LooseResponse(srv, p, shape) ==
    [hits |-> [total |-> TotalInfo(shape, srv.total), hits |-> LoosePageHits(srv, p)]]

\* A server that reports its total in one form: as a plain number, or as an
\* object whose relation is "eq" or "gte".
TotalForms == {"number", "eq", "gte"}
FormedServers == {[list |-> RankedList(T), form |-> f] : T \in 0..MaxTotal, f \in TotalForms}

\* hits.total in the form of the server.
FormedTotal(form, T) ==
    IF form = "number" THEN TotalInfo("number", T)
    ELSE [TotalInfo("object", T) EXCEPT !.relation = form]

\* The JSON body such a server answers a request for page p with.
FormedResponse(srv, p) ==
    [hits |-> [total |-> FormedTotal(srv.form, Len(srv.list)), hits |-> PageHits(srv.list, p)]]

\* Bodies of successful responses that lack the hits shape: a hits object
\* without its hits list, and a body without a hits object.
MalformedBodies ==
    {[hits |-> [total |-> TotalInfo("number", MaxTotal)]],
     [message |-> "Service Unavailable"]}

\* The request of one fetch: the keys and page search parameters of the URL.
Request(keys, page) == [keys |-> keys, page |-> page]

\* ------------------------------------------------------ client.ts: search
\* Mutant of StartPage: the traversal always starts at page 0.
StartPageZero(skip) == 0

\* let page = Math.floor(skip / 10)
StartPage(skip) == skip \div PageSize

\* let itemsToSkipInFirstPage = skip % 10
ItemsToSkipInFirstPage(skip) == skip % PageSize

\* Mutant of Limit: the test written n >= 0, so that 0 is a limit of no records.
LimitNonNegative(n) == IF n >= 0 THEN n ELSE MAX_SAFE_INTEGER

\* const limit = n > 0 ? n : Number.MAX_SAFE_INTEGER
Limit(n) == IF n > 0 THEN n ELSE MAX_SAFE_INTEGER

\* Mutant of NormalizeTotal: only a plain number is read as the total.
NormalizeTotalNumberOnly(totalInfo) ==
    IF totalInfo.type = "number" THEN totalInfo.number ELSE 0

\* typeof totalInfo === "number" ? totalInfo : totalInfo.value
NormalizeTotal(totalInfo) ==
    IF totalInfo.type = "number" THEN totalInfo.number ELSE totalInfo.value

\* results.push({ documentId, filename, url, ..., raw: hit })
SearchResult(hit) ==
    [documentId |-> hit._source.documentId,
     filename |-> hit._source.ORIGIN_FILE_NAME,
     raw |-> hit]

\* Mutant of Push: the record is put in front of the results (unshift).
Unshift(results, record) == <<record>> \o results

\* results.push({ ... })
Push(results, record) == Append(results, record)

\* Mutant of LimitReached: the limit test written with > instead of >=.
LimitReachedStrict(results, limit) == Len(results) > limit

\* if (results.length >= limit) return results
LimitReached(results, limit) == Len(results) >= limit

\* Mutant of NoMorePages: the boundary test written with > instead of >=.
NoMorePagesStrict(page, total) == (page + 1) * PageSize > total

\* if ((page + 1) * 10 >= total) break
NoMorePages(page, total) == (page + 1) * PageSize >= total

\* The two discards of the hit loop: the hit is kept when neither applies.
SkipsInFirstPage(c) == c.itemsToSkipInFirstPage > 0
SkipsByFetched(c) == c.fetched <= c.skip

\* new Error(`DOJ API error: ${response.status} ${response.statusText}`)
HttpErrorOf(status) ==
    [name |-> "Error",
     message |-> "DOJ API error: " \o ToString(status) \o " " \o StatusText(status)]

\* the rejection of fetch itself (no response at all)
NetworkError == [name |-> "TypeError", message |-> "fetch failed"]

\* A call that has not been made.
IdleCall ==
    [op |-> "none", via |-> "none", pc |-> "idle",
     query |-> "", nArg |-> Absent, n |-> 0, skip |-> 0, filename |-> "",
     limit |-> 0, page |-> 0, fetched |-> 0, itemsToSkipInFirstPage |-> 0,
     results |-> <<>>,
     log |-> <<>>,          \* the requests fetched so far, in order
     ret |-> <<>>,          \* <<v>> once the call has returned v
     err |-> <<>>,          \* <<e>> once the call has thrown e
     stop |-> "",           \* which statement ended the call
     failed |-> FALSE,      \* a fetch of the call got no successful response
     lastStatus |-> 0,      \* the HTTP status of the last response, 0 before any
     discarded |-> 0,       \* hits the loop passed over with continue
     unread |-> 0,          \* hits of the last page the loop did not reach
     lastTotal |-> 0,       \* the total the last page reported
     malformed |-> FALSE]   \* a successful response of the call lacked hits or hits.hits

\* Mutant of ProcessHit: fetched++ placed after the first-page discard, so the
\* hits that discard passes over are not counted.
ProcessHitLateCount(c, hit) ==
    IF SkipsInFirstPage(c)
    THEN [c EXCEPT !.itemsToSkipInFirstPage = @ - 1, !.discarded = @ + 1]
    ELSE LET c1 == [c EXCEPT !.fetched = @ + 1] IN
         IF SkipsByFetched(c1)
         THEN [c1 EXCEPT !.discarded = @ + 1]
         ELSE LET c2 == [c1 EXCEPT !.results = Append(@, SearchResult(hit))] IN
              IF LimitReached(c2.results, c2.limit)
              THEN [c2 EXCEPT !.pc = "returned", !.ret = <<c2.results>>,
                              !.stop = "limit"]
              ELSE c2

\* Mutant of ProcessHit: skip handled by the starting page alone, no hit of a
\* fetched page is discarded.
ProcessHitNoDiscard(c, hit) ==
    LET c2 == [c EXCEPT !.fetched = @ + 1, !.results = Append(@, SearchResult(hit))] IN
    IF LimitReached(c2.results, c2.limit)
    THEN [c2 EXCEPT !.pc = "returned", !.ret = <<c2.results>>, !.stop = "limit"]
    ELSE c2

\* One iteration of for (const hit of hits).
ProcessHit(c, hit) ==
    LET c1 == [c EXCEPT !.fetched = @ + 1] IN
    IF SkipsInFirstPage(c1)
    THEN [c1 EXCEPT !.itemsToSkipInFirstPage = @ - 1, !.discarded = @ + 1]
    ELSE IF SkipsByFetched(c1)
    THEN [c1 EXCEPT !.discarded = @ + 1]
    ELSE LET c2 == [c1 EXCEPT !.results = Push(@, SearchResult(hit))] IN
         IF LimitReached(c2.results, c2.limit)
         THEN [c2 EXCEPT !.pc = "returned", !.ret = <<c2.results>>, !.stop = "limit"]
         ELSE c2

\* Mutant of ForHits: the loop runs over the whole page, return or not.
RECURSIVE ForHitsWholePage(_, _, _)
ForHitsWholePage(c, hits, i) ==
    IF i > Len(hits)
    THEN [c EXCEPT !.unread = 0]
    ELSE ForHitsWholePage(ProcessHit(c, hits[i]), hits, i + 1)

\* The for loop over the hits of a page, left early by the return in it.
RECURSIVE ForHits(_, _, _)
ForHits(c, hits, i) ==
    IF i > Len(hits) \/ c.pc = "returned"
    THEN [c EXCEPT !.unread = Len(hits) - (i - 1)]
    ELSE ForHits(ProcessHit(c, hits[i]), hits, i + 1)

\* The top of the while loop: build the URL and fetch it.
FetchPage(c) ==
    [c EXCEPT !.pc = "awaiting", !.log = Append(@, Request(c.query, c.page))]

\* Mutant of EmptyPage: no page counts as empty.
EmptyPageNever(hits) == FALSE

\* if (hits.length === 0) break
EmptyPage(hits) == Len(hits) = 0

\* data.hits is undefined: the body has no hits object.
NoHitsObject(data) == "hits" \notin DOMAIN data

\* What reading data.hits.hits throws when data.hits is undefined.
UndefinedHitsError ==
    [name |-> "TypeError",
     message |-> "Cannot read properties of undefined (reading 'hits')"]

\* data.hits.hits || []
HitsOrEmpty(data) == IF "hits" \in DOMAIN data.hits THEN data.hits.hits ELSE <<>>

\* Mutant of NextPage: the page index is left as it is.
NextPageStay(c) == c

\* Mutant of NextPage: the page index kept in a field of the client, which
\* every call in progress advances.
NextPageShared(c) ==
    [c EXCEPT !.page = 1 + CHOOSE p \in {call[d].page : d \in DOMAIN call} :
                               \A d \in DOMAIN call : call[d].page <= p]

\* page++
NextPage(c) == [c EXCEPT !.page = @ + 1]

\* The body of the while loop after a successful response.
OnSearchData(c, data) ==
    IF NoHitsObject(data)
    THEN [c EXCEPT !.pc = "threw", !.err = <<UndefinedHitsError>>, !.stop = "error"]
    ELSE
    LET hits == HitsOrEmpty(data) IN
    IF EmptyPage(hits)
    THEN [c EXCEPT !.pc = "returned", !.ret = <<c.results>>, !.stop = "empty"]
    ELSE LET c1 == [ForHits(c, hits, 1) EXCEPT
                        !.lastTotal = NormalizeTotal(data.hits.total)] IN
         IF c1.pc = "returned" THEN c1
         ELSE IF NoMorePages(c1.page, NormalizeTotal(data.hits.total))
         THEN [c1 EXCEPT !.pc = "returned", !.ret = <<c1.results>>, !.stop = "total"]
         ELSE FetchPage(NextPage(c1))

\* Mutant of OnNotOk: a failed page ends the loop like an empty page does, and
\* the records collected so far are returned.
OnNotOkBreak(c, status) ==
    [c EXCEPT !.pc = "returned", !.ret = <<c.results>>, !.stop = "error"]

\* Mutant of OnNotOk: the failed fetch is issued again.
OnNotOkRetry(c, status) == FetchPage(c)

\* if (!response.ok) throw new Error(...)
OnNotOk(c, status) ==
    [c EXCEPT !.pc = "threw", !.err = <<HttpErrorOf(status)>>, !.stop = "error"]

\* Mutant of BeginSearch: results kept in a field of the client, which an
\* earlier call has filled, instead of a local of the call.
BeginSearchSharedResults(via, query, nArg, n, skip) ==
    LET earlier == {c \in DOMAIN call : call[c].op = "search" /\ call[c].pc = "returned"}
    IN  FetchPage([IdleCall EXCEPT
            !.op = "search", !.via = via, !.query = query,
            !.nArg = nArg, !.n = n, !.skip = skip,
            !.limit = Limit(n),
            !.page = StartPage(skip),
            !.itemsToSkipInFirstPage = ItemsToSkipInFirstPage(skip),
            !.results = IF earlier = {} THEN <<>>
                        ELSE call[CHOOSE c \in earlier : TRUE].results])

\* search(query, n, skip) up to its first await.
BeginSearch(via, query, nArg, n, skip) ==
    FetchPage([IdleCall EXCEPT
        !.op = "search", !.via = via, !.query = query,
        !.nArg = nArg, !.n = n, !.skip = skip,
        !.limit = Limit(n),
        !.page = StartPage(skip),
        !.itemsToSkipInFirstPage = ItemsToSkipInFirstPage(skip)])

\* ------------------------------------------------------- client.ts: count
\* count(query) up to its await: one request, url.searchParams.set("page", "0").
BeginCount(query) ==
    [IdleCall EXCEPT !.op = "count", !.query = query, !.pc = "awaiting",
                     !.log = <<Request(query, 0)>>]

\* Mutant of OnCountData: count walks the pages as search does before it returns.
OnCountDataPaging(c, data) ==
    IF (c.page + 1) * PageSize >= NormalizeTotal(data.hits.total)
    THEN [c EXCEPT !.pc = "returned", !.ret = <<NormalizeTotal(data.hits.total)>>,
                   !.stop = "return"]
    ELSE [c EXCEPT !.page = @ + 1, !.log = Append(@, Request(c.query, c.page + 1))]

\* return typeof totalInfo === "number" ? totalInfo : totalInfo.value
OnCountData(c, data) ==
    [c EXCEPT !.pc = "returned", !.ret = <<NormalizeTotal(data.hits.total)>>,
              !.stop = "return"]

\* ------------------------------------------------- client.ts: getMetadata
\* `"${filename}"`
Quote(filename) == "\"" \o filename \o "\""

\* getMetadata(filename) up to its await.
BeginGetMetadata(filename) ==
    [IdleCall EXCEPT !.op = "getMetadata", !.filename = filename, !.pc = "awaiting",
                     !.query = Quote(filename),
                     !.log = <<Request(Quote(filename), 0)>>]

\* toLowerCase, for the letters of the Latin alphabet
UpperCase == "ABCDEFGHIJKLMNOPQRSTUVWXYZ"
LowerCase == "abcdefghijklmnopqrstuvwxyz"
LowerChar(ch) ==
    IF \E i \in 1..Len(UpperCase) : SubSeq(UpperCase, i, i) = ch
    THEN LET i == CHOOSE j \in 1..Len(UpperCase) : SubSeq(UpperCase, j, j) = ch
         IN SubSeq(LowerCase, i, i)
    ELSE ch
RECURSIVE ToLowerCase(_)
ToLowerCase(s) ==
    IF Len(s) = 0 THEN ""
    ELSE LowerChar(SubSeq(s, 1, 1)) \o ToLowerCase(SubSeq(s, 2, Len(s)))

\* Mutant of NameMatches: the file names compared without regard to case.
NameMatchesIgnoreCase(h, filename) ==
    ToLowerCase(h._source.ORIGIN_FILE_NAME) = ToLowerCase(filename)

\* h._source.ORIGIN_FILE_NAME === filename
NameMatches(h, filename) == h._source.ORIGIN_FILE_NAME = filename

\* hits.find(h => h._source.ORIGIN_FILE_NAME === filename) || hits[0]
BestMatch(hits, filename) ==
    IF \E i \in 1..Len(hits) : NameMatches(hits[i], filename)
    THEN hits[CHOOSE i \in 1..Len(hits) :
                 /\ NameMatches(hits[i], filename)
                 /\ \A j \in 1..(i - 1) : ~NameMatches(hits[j], filename)]
    ELSE hits[1]

\* DocumentMetadata of a hit
DocumentMetadata(hit) ==
    [documentId |-> hit._source.documentId, filename |-> hit._source.ORIGIN_FILE_NAME]

\* the null getMetadata returns
Null == [null |-> TRUE]

OnMetadataData(c, data) ==
    IF NoHitsObject(data)
    THEN [c EXCEPT !.pc = "threw", !.err = <<UndefinedHitsError>>, !.stop = "error"]
    ELSE
    LET hits == HitsOrEmpty(data) IN
    IF Len(hits) = 0
    THEN [c EXCEPT !.pc = "returned", !.ret = <<Null>>, !.stop = "empty"]
    ELSE [c EXCEPT !.pc = "returned", !.stop = "return",
                   !.ret = <<DocumentMetadata(BestMatch(hits, c.filename))>>]

\* ------------------------------------------ index.ts: search_epstein_library
NoTool == [state |-> "none", isError |-> FALSE, text |-> ""]
PendingTool == [state |-> "pending", isError |-> FALSE, text |-> ""]

\* `No documents found matching: "${query}"`
NoDocumentsFound(query) ==
    [state |-> "done", isError |-> FALSE,
     text |-> "No documents found matching: \"" \o query \o "\""]

\* `Found ${results.length} documents for query "${query}":\n\n...`
DocumentsFound(query, results) ==
    [state |-> "done", isError |-> FALSE,
     text |-> "Found " \o ToString(Len(results)) \o " documents for query \""
              \o query \o "\":"]

\* Mutant of SearchToolError: the catch answers as if nothing had been found.
SearchToolErrorAsEmpty(error) ==
    [state |-> "done", isError |-> FALSE, text |-> "No documents found matching: \"\""]

\* catch (error): isError with `Error searching Epstein Library: ${error.message}`
SearchToolError(error) ==
    [state |-> "done", isError |-> TRUE,
     text |-> "Error searching Epstein Library: " \o error.message]

\* The tool handler after await this.client.search(...) has settled.
SearchToolResponse(c) ==
    IF c.pc = "threw" THEN SearchToolError(c.err[1])
    ELSE IF Len(c.ret[1]) = 0 THEN NoDocumentsFound(c.query)
    ELSE DocumentsFound(c.query, c.ret[1])

\* ------------------------------- index.ts: get_epstein_document_metadata
\* No request to the secondary site has been made.
NoFallback == [log |-> <<>>, outcome |-> "none"]

\* The file names the metadata tool is asked about.
ToolFileNames == FileNames \cup {"EFTA.pdf", "EFTA12.PDF", "EFTA1.pdf.txt"}

IsDigit(ch) == \E i \in 1..10 : SubSeq("0123456789", i, i) = ch

\* Mutant of EftaMatch: the digits written \d* instead of \d+.
EftaMatchNoDigits(filename) ==
    LET lower == ToLowerCase(filename)
        len == Len(filename)
    IN  IF /\ len >= 8
           /\ SubSeq(lower, 1, 4) = "efta"
           /\ SubSeq(lower, len - 3, len) = ".pdf"
           /\ \A i \in 5..(len - 4) : IsDigit(SubSeq(lower, i, i))
        THEN <<SubSeq(filename, 1, len - 4)>>
        ELSE <<>>

\* filename.match(/^(EFTA\d+)\.pdf$/i): <<>> for null, else <<eftaMatch[1]>>.
EftaMatch(filename) ==
    LET lower == ToLowerCase(filename)
        len == Len(filename)
    IN  IF /\ len >= 9
           /\ SubSeq(lower, 1, 4) = "efta"
           /\ SubSeq(lower, len - 3, len) = ".pdf"
           /\ \A i \in 5..(len - 4) : IsDigit(SubSeq(lower, i, i))
        THEN <<SubSeq(filename, 1, len - 4)>>
        ELSE <<>>

\* `https://epsteinfilez.com/?q=${baseName}&page=1`
FallbackUrl(baseName) == "https://epsteinfilez.com/?q=" \o baseName \o "&page=1"

\* What the secondary site may answer: a status and the text of the page.
FallbackResponses ==
    {[ok |-> TRUE, status |-> 200, text |-> "3 results found"],
     [ok |-> TRUE, status |-> 200, text |-> "No documents found"],
     [ok |-> TRUE, status |-> 200, text |-> "0 results found"],
     [ok |-> FALSE, status |-> 503, text |-> ""]}

\* `Document not found: "${filename}"`
DocumentNotFound(filename) ==
    [state |-> "done", isError |-> FALSE,
     text |-> "Document not found: \"" \o filename \o "\""]

\* the potential match found on the secondary site
PotentialMatch(url) ==
    [state |-> "done", isError |-> FALSE,
     text |-> "Document not found in DOJ Library, but a potential match was found on EpsteinFilez:\n"
              \o url]

\* `Metadata for ${metadata.filename}: ... Document ID: ${metadata.documentId} ...`
MetadataFound(metadata) ==
    [state |-> "done", isError |-> FALSE,
     text |-> "Metadata for " \o metadata.filename \o ":\nDocument ID: "
              \o metadata.documentId]

\* the outer catch: isError with `Error getting document metadata: ${error.message}`
MetadataToolError(error) ==
    [state |-> "done", isError |-> TRUE,
     text |-> "Error getting document metadata: " \o error.message]

\* The handler awaits the fetch of the secondary site.
AwaitingFallback == [state |-> "fallback", isError |-> FALSE, text |-> ""]

\* Mutant of FallbackNeeded: the secondary site asked whenever the primary lookup
\* gave no metadata, a lookup that threw included.
FallbackNeededOnError(c) ==
    /\ c.pc = "threw" \/ c.ret = <<Null>>
    /\ EftaMatch(c.filename) # <<>>

\* if (!metadata) { ... if (eftaMatch) { ... fetch(fallbackUrl) } }
FallbackNeeded(c) ==
    /\ c.pc = "returned"
    /\ c.ret = <<Null>>
    /\ EftaMatch(c.filename) # <<>>

\* The handler after await this.client.getMetadata(filename) has settled, when
\* it does not go on to the secondary site.
MetadataToolResponse(c) ==
    IF c.pc = "threw" THEN MetadataToolError(c.err[1])
    ELSE IF c.ret = <<Null>> THEN DocumentNotFound(c.filename)
    ELSE MetadataFound(c.ret[1])

\* The handler after the secondary site has answered.
OnFallbackResponse(filename, url, response) ==
    IF /\ response.ok
       /\ ~Contains(response.text, "No documents found")
       /\ ~Contains(response.text, "0 results found")
    THEN PotentialMatch(url)
    ELSE DocumentNotFound(filename)

\* Mutant of OnFallbackThrown: the inner catch missing, the outer one answers.
OnFallbackThrownSurfaced(filename, error) == MetadataToolError(error)

\* catch (e) { console.error(...) } and the return that follows it.
OnFallbackThrown(filename, error) == DocumentNotFound(filename)

\* No aggregation has been started.
NoAgg == [pc |-> "idle"]

\* ------------------------------------------- multi-query (OR) aggregation
\* The documents of the first branch, and those only other branches hold.
DocA(i) == "a" \o ToString(i)
DocB(i) == "b" \o ToString(i)

\* What the first query finds: a1 .. ak.
FirstBranches == {[i \in 1..k |-> DocA(i)] : k \in 0..MaxBranchLen}

\* What the second query finds: documents of the first branch and documents of
\* its own, in any order and with repeats (chunks of one document); its own
\* documents are numbered in the order they first appear.
SecondBranches ==
    LET docs == {DocA(i) : i \in 1..MaxBranchLen} \cup {DocB(i) : i \in 1..MaxBranchLen}
        all == UNION {[1..k -> docs] : k \in 0..MaxBranchLen}
    IN  {s \in all :
            \A p \in 1..Len(s) : \A j \in 2..MaxBranchLen :
                s[p] = DocB(j) => \E q \in 1..(p - 1) : s[q] = DocB(j - 1)}

\* What a third query finds, in the searches that have one.
ThirdBranches == {<<"c1">>, <<"a1", "c1">>}

\* The result lists of the queries of one multi-query search.
BranchLists ==
    {<<f, s>> : f \in FirstBranches, s \in SecondBranches}
    \cup {<<f, s, t>> : f \in {<<>>, <<"a1", "a2">>}, s \in {<<>>, <<"b1">>, <<"a1">>},
                        t \in ThirdBranches}

\* Mutant of BranchPaginator: the skip and limit of the search handed down to
\* every branch.
BranchPaginatorSliced(list, skip, limit) ==
    [list |-> list, skip |-> skip, limit |-> limit, yielded |-> 0, exhausted |-> FALSE]

\* One branch: a single-query traversal with no skip and no limit.
BranchPaginator(list, skip, limit) ==
    [list |-> list, skip |-> 0, limit |-> 0, yielded |-> 0, exhausted |-> FALSE]

\* The branch has a next record to give.
BranchHasNext(b) ==
    /\ b.skip + b.yielded < Len(b.list)
    /\ b.limit = 0 \/ b.yielded < b.limit

\* The position in its result list of the record the branch gives next.
BranchNextIndex(b) == b.skip + b.yielded + 1

\* paginateMany(queries, limit, skip) before its first pull.
AggBegin(lists, limit, skip) ==
    [pc |-> "running",
     branches |-> [i \in 1..Len(lists) |-> BranchPaginator(lists[i], skip, limit)],
     turn |-> 1,
     seen |-> {},               \* the document identifiers merged so far
     merged |-> 0,              \* how many records the merge has produced
     skip |-> skip,
     n |-> limit,
     limit |-> Limit(limit),
     out |-> <<>>]

\* Mutant of NextTurn: the merge stays on a branch until it is exhausted.
NextTurnBranchMajor(a, branches) ==
    IF ~branches[a.turn].exhausted THEN a.turn
    ELSE IF \E i \in 1..Len(branches) : ~branches[i].exhausted
    THEN CHOOSE i \in 1..Len(branches) :
            /\ ~branches[i].exhausted
            /\ \A j \in 1..(i - 1) : branches[j].exhausted
    ELSE a.turn

\* The branch whose turn comes after the current one: the next in cyclic order
\* that is not exhausted (the current one when no other is left).
NextTurn(a, branches) ==
    LET N == Len(branches)
        after(d) == ((a.turn - 1 + d) % N) + 1
    IN  IF \E d \in 1..N : ~branches[after(d)].exhausted
        THEN after(CHOOSE d \in 1..N :
                      /\ ~branches[after(d)].exhausted
                      /\ \A d2 \in 1..(d - 1) : branches[after(d2)].exhausted)
        ELSE a.turn

\* Mutant of OnDuplicate: the duplicate is dropped from the output but still
\* counted as a merged record, and the turn passes on.
OnDuplicateCounted(a, branches) ==
    [a EXCEPT !.branches = branches, !.merged = @ + 1,
              !.turn = NextTurn(a, branches),
              !.pc = IF a.merged + 1 - a.skip >= a.limit THEN "done" ELSE @]

\* A candidate whose documentId was already merged: discarded, not counted, and
\* the same branch is pulled again.
OnDuplicate(a, branches) == [a EXCEPT !.branches = branches]

\* One pull of the merge from the branch whose turn it is.
AggStep(a) ==
    LET b == a.branches[a.turn] IN
    IF ~BranchHasNext(b)
    THEN LET branches == [a.branches EXCEPT ![a.turn].exhausted = TRUE] IN
         IF \A i \in 1..Len(branches) : branches[i].exhausted
         THEN [a EXCEPT !.branches = branches, !.pc = "done"]
         ELSE [a EXCEPT !.branches = branches, !.turn = NextTurn(a, branches)]
    ELSE LET doc == b.list[BranchNextIndex(b)]
             branches == [a.branches EXCEPT ![a.turn].yielded = @ + 1]
         IN  IF doc \in a.seen
             THEN OnDuplicate(a, branches)
             ELSE LET a1 == [a EXCEPT !.branches = branches,
                                      !.seen = @ \cup {doc},
                                      !.merged = @ + 1,
                                      !.turn = NextTurn(a, branches)]
                  IN  IF a1.merged <= a1.skip
                      THEN a1
                      ELSE LET a2 == [a1 EXCEPT !.out = Append(@,
                                          [documentId |-> doc, branch |-> a.turn,
                                           index |-> BranchNextIndex(b)])]
                           IN  IF Len(a2.out) >= a2.limit
                               THEN [a2 EXCEPT !.pc = "done"]
                               ELSE a2

NArgs == {Absent} \cup {Given(k) : k \in 0..MaxLimit}
SkipArgs == {Absent} \cup {Given(k) : k \in 0..MaxSkip}

\* ----------------------------------------------------------------- actions
Init ==
    /\ server \in Servers
    /\ call = [c \in CallIds |-> IdleCall]
    /\ tool = [c \in CallIds |-> NoTool]
    /\ fallback = [c \in CallIds |-> NoFallback]
    /\ agg = NoAgg

\* client.search(query, n, skip), called directly.
Search(c, query, nArg, skipArg) ==
    /\ call[c].pc = "idle"
    /\ call' = [call EXCEPT ![c] =
            BeginSearch("client", query, nArg,
                        DefaultArg(nArg, DEFAULT_N), DefaultArg(skipArg, DEFAULT_SKIP))]
    /\ UNCHANGED <<server, tool, fallback, agg>>

\* A fetch of the call is answered with a non-success status.
FetchNotOk(c, status) ==
    /\ call[c].pc = "awaiting"
    /\ call' = [call EXCEPT ![c] =
            [OnNotOk(call[c], status) EXCEPT !.failed = TRUE, !.lastStatus = status]]
    /\ UNCHANGED <<server, tool, fallback, agg>>

\* The fetch itself rejects: the await throws what fetch threw.
FetchRejected(c) ==
    /\ call[c].pc = "awaiting"
    /\ call' = [call EXCEPT ![c] =
            [@ EXCEPT !.pc = "threw", !.err = <<NetworkError>>,
                      !.stop = "error", !.failed = TRUE]]
    /\ UNCHANGED <<server, tool, fallback, agg>>

\* A fetch of search is answered with the page it asked for.
SearchPage(c, shape) ==
    /\ call[c].pc = "awaiting"
    /\ call[c].op = "search"
    /\ call' = [call EXCEPT ![c] =
            [OnSearchData(@, SearchResponse(server, call[c].page, shape))
                EXCEPT !.lastStatus = 200]]
    /\ UNCHANGED <<server, tool, fallback, agg>>

\* A fetch of search is answered by a server with an unreliable total.
SearchPageLoose(c, shape) ==
    /\ call[c].pc = "awaiting"
    /\ call[c].op = "search"
    /\ call' = [call EXCEPT ![c] =
            [OnSearchData(@, LooseResponse(server, call[c].page, shape))
                EXCEPT !.lastStatus = 200]]
    /\ UNCHANGED <<server, tool, fallback, agg>>

\* A fetch of search is answered with a successful response whose body lacks
\* the hits shape.
SearchPageMalformed(c, body) ==
    /\ call[c].pc = "awaiting"
    /\ call[c].op = "search"
    /\ call' = [call EXCEPT ![c] =
            [OnSearchData(@, body) EXCEPT !.lastStatus = 200, !.malformed = TRUE]]
    /\ UNCHANGED <<server, tool, fallback, agg>>

\* The fetch of getMetadata is answered with such a response.
MetadataPageMalformed(c, body) ==
    /\ call[c].pc = "awaiting"
    /\ call[c].op = "getMetadata"
    /\ call' = [call EXCEPT ![c] =
            [OnMetadataData(@, body) EXCEPT !.lastStatus = 200, !.malformed = TRUE]]
    /\ UNCHANGED <<server, tool, fallback, agg>>

\* A fetch of search is answered by a server with its form of total.
SearchPageFormed(c) ==
    /\ call[c].pc = "awaiting"
    /\ call[c].op = "search"
    /\ call' = [call EXCEPT ![c] =
            [OnSearchData(@, FormedResponse(server, call[c].page)) EXCEPT !.lastStatus = 200]]
    /\ UNCHANGED <<server, tool, fallback, agg>>

\* The fetch of count is answered by a server with its form of total.
CountPageFormed(c) ==
    /\ call[c].pc = "awaiting"
    /\ call[c].op = "count"
    /\ call' = [call EXCEPT ![c] =
            [OnCountData(@, FormedResponse(server, 0)) EXCEPT !.lastStatus = 200]]
    /\ UNCHANGED <<server, tool, fallback, agg>>

\* client.count(query)
Count(c, query) ==
    /\ call[c].pc = "idle"
    /\ call' = [call EXCEPT ![c] = BeginCount(query)]
    /\ UNCHANGED <<server, tool, fallback, agg>>

\* The fetch of count is answered with page 0.
CountPage(c, shape) ==
    /\ call[c].pc = "awaiting"
    /\ call[c].op = "count"
    /\ call' = [call EXCEPT ![c] =
            [OnCountData(@, SearchResponse(server, 0, shape)) EXCEPT !.lastStatus = 200]]
    /\ UNCHANGED <<server, tool, fallback, agg>>

\* client.getMetadata(filename)
GetMetadata(c, filename) ==
    /\ call[c].pc = "idle"
    /\ call' = [call EXCEPT ![c] = BeginGetMetadata(filename)]
    /\ UNCHANGED <<server, tool, fallback, agg>>

\* The fetch of getMetadata is answered with page 0.
MetadataPage(c, shape) ==
    /\ call[c].pc = "awaiting"
    /\ call[c].op = "getMetadata"
    /\ call' = [call EXCEPT ![c] =
            [OnMetadataData(@, SearchResponse(server, 0, shape))
                EXCEPT !.lastStatus = 200]]
    /\ UNCHANGED <<server, tool, fallback, agg>>

\* The search_epstein_library tool is called: zod fills in the defaults of n and
\* skip, and the handler calls this.client.search(query, n, skip).
SearchTool(c, query, nArg, skipArg) ==
    /\ call[c].pc = "idle"
    /\ call' = [call EXCEPT ![c] =
            BeginSearch("tool", query, nArg,
                        DefaultArg(nArg, DEFAULT_N), DefaultArg(skipArg, DEFAULT_SKIP))]
    /\ tool' = [tool EXCEPT ![c] = PendingTool]
    /\ UNCHANGED <<server, fallback, agg>>

\* The search the tool awaits has settled: the handler builds its response.
SearchToolDone(c) ==
    /\ tool[c].state = "pending"
    /\ call[c].pc \in {"returned", "threw"}
    /\ tool' = [tool EXCEPT ![c] = SearchToolResponse(call[c])]
    /\ UNCHANGED <<server, call, fallback, agg>>

\* The get_epstein_document_metadata tool is called: the handler calls
\* this.client.getMetadata(filename).
MetadataTool(c, filename) ==
    /\ call[c].pc = "idle"
    /\ call' = [call EXCEPT ![c] = [BeginGetMetadata(filename) EXCEPT !.via = "tool"]]
    /\ tool' = [tool EXCEPT ![c] = PendingTool]
    /\ UNCHANGED <<server, fallback, agg>>

\* The getMetadata the tool awaits has settled: the handler answers, or fetches
\* the secondary site.
MetadataToolPrimaryDone(c) ==
    /\ tool[c].state = "pending"
    /\ call[c].op = "getMetadata"
    /\ call[c].pc \in {"returned", "threw"}
    /\ IF FallbackNeeded(call[c])
       THEN /\ tool' = [tool EXCEPT ![c] = AwaitingFallback]
            /\ fallback' = [fallback EXCEPT ![c].log =
                    Append(@, FallbackUrl(EftaMatch(call[c].filename)[1]))]
       ELSE /\ tool' = [tool EXCEPT ![c] = MetadataToolResponse(call[c])]
            /\ UNCHANGED fallback
    /\ UNCHANGED <<server, call, agg>>

\* The secondary site answers.
FallbackAnswered(c, response) ==
    /\ tool[c].state = "fallback"
    /\ tool' = [tool EXCEPT ![c] =
            OnFallbackResponse(call[c].filename, fallback[c].log[1], response)]
    /\ fallback' = [fallback EXCEPT ![c].outcome =
            IF ~response.ok THEN "notok"
            ELSE IF response.text = "3 results found" THEN "match" ELSE "nomatch"]
    /\ UNCHANGED <<server, call, agg>>

\* The fetch of the secondary site rejects.
FallbackRejected(c) ==
    /\ tool[c].state = "fallback"
    /\ tool' = [tool EXCEPT ![c] = OnFallbackThrown(call[c].filename, NetworkError)]
    /\ fallback' = [fallback EXCEPT ![c].outcome = "rejected"]
    /\ UNCHANGED <<server, call, agg>>

\* client.search called again with the arguments of a call that has settled.
SearchReplay(c, first) ==
    /\ call[c].pc = "idle"
    /\ call[first].op = "search"
    /\ call[first].pc \in {"returned", "threw"}
    /\ call' = [call EXCEPT ![c] =
            BeginSearch("client", call[first].query, call[first].nArg,
                        call[first].n, call[first].skip)]
    /\ UNCHANGED <<server, tool, fallback, agg>>

\* search(list of queries, limit, skip): the multi-query aggregation starts.
Aggregate ==
    /\ agg.pc = "idle"
    /\ \E lists \in BranchLists, limit \in 0..MaxAggLimit, skip \in 0..MaxAggSkip :
          agg' = AggBegin(lists, limit, skip)
    /\ UNCHANGED <<server, call, tool, fallback>>

\* The consumer pulls the merge once more.
AggPull ==
    /\ agg.pc = "running"
    /\ agg' = AggStep(agg)
    /\ UNCHANGED <<server, call, tool, fallback>>

\* The client's methods called directly.
Next ==
    \E c \in CallIds :
        \/ \E q \in Queries, nArg \in NArgs, skipArg \in SkipArgs :
               Search(c, q, nArg, skipArg)
        \/ \E q \in Queries : Count(c, q)
        \/ \E f \in FileNames : GetMetadata(c, f)
        \/ \E st \in HttpErrors : FetchNotOk(c, st)
        \/ FetchRejected(c)
        \/ \E shape \in TotalShapes : SearchPage(c, shape)
        \/ \E shape \in TotalShapes : CountPage(c, shape)
        \/ \E shape \in TotalShapes : MetadataPage(c, shape)

Spec == Init /\ [][Next]_vars

\* The client's methods called through the MCP tools.
NextTool ==
    \E c \in CallIds :
        \/ \E q \in Queries, nArg \in NArgs, skipArg \in SkipArgs :
               SearchTool(c, q, nArg, skipArg)
        \/ \E st \in HttpErrors : FetchNotOk(c, st)
        \/ FetchRejected(c)
        \/ \E shape \in TotalShapes : SearchPage(c, shape)
        \/ SearchToolDone(c)

SpecTool == Init /\ [][NextTool]_vars

\* getMetadata called through the get_epstein_document_metadata tool.
NextMetaTool ==
    \E c \in CallIds :
        \/ \E f \in ToolFileNames : MetadataTool(c, f)
        \/ \E st \in HttpErrors : FetchNotOk(c, st)
        \/ FetchRejected(c)
        \/ \E shape \in TotalShapes : MetadataPage(c, shape)
        \/ MetadataToolPrimaryDone(c)
        \/ \E r \in FallbackResponses : FallbackAnswered(c, r)
        \/ FallbackRejected(c)

SpecMetaTool == Init /\ [][NextMetaTool]_vars

\* Two calls on one client, the second a replay of the first.
TwoCalls == {1, 2}

InitTwice ==
    /\ server \in Servers
    /\ call = [c \in TwoCalls |-> IdleCall]
    /\ tool = [c \in TwoCalls |-> NoTool]
    /\ fallback = [c \in TwoCalls |-> NoFallback]
    /\ agg = NoAgg

NextTwice ==
    \/ \E q \in Queries, nArg \in NArgs : Search(1, q, nArg, Given(0))
    \/ SearchReplay(2, 1)
    \/ \E c \in TwoCalls :
          \/ \E st \in HttpErrors : FetchNotOk(c, st)
          \/ FetchRejected(c)
          \/ \E shape \in TotalShapes : SearchPage(c, shape)

SpecTwice == InitTwice /\ [][NextTwice]_vars

\* search against a server with an unreliable total.
LooseNArgs == {Given(0), Given(MaxLimit)}
LooseSkipArgs == {Given(0), Given(PageSize \div 2), Given(PageSize)}

InitLoose ==
    /\ server \in LooseServers
    /\ call = [c \in CallIds |-> IdleCall]
    /\ tool = [c \in CallIds |-> NoTool]
    /\ fallback = [c \in CallIds |-> NoFallback]
    /\ agg = NoAgg

NextLoose ==
    \E c \in CallIds :
        \/ \E q \in Queries, nArg \in LooseNArgs, skipArg \in LooseSkipArgs :
               Search(c, q, nArg, skipArg)
        \/ \E st \in HttpErrors : FetchNotOk(c, st)
        \/ FetchRejected(c)
        \/ \E shape \in TotalShapes : SearchPageLoose(c, shape)

SpecLoose == InitLoose /\ [][NextLoose]_vars

\* search and getMetadata against a server that may answer with a body that
\* lacks the hits shape.
InitMalformed ==
    /\ server \in {RankedList(T) : T \in 0..MaxTotal}
    /\ call = [c \in CallIds |-> IdleCall]
    /\ tool = [c \in CallIds |-> NoTool]
    /\ fallback = [c \in CallIds |-> NoFallback]
    /\ agg = NoAgg

NextMalformed ==
    \E c \in CallIds :
        \/ \E q \in Queries, nArg \in LooseNArgs, skipArg \in LooseSkipArgs :
               Search(c, q, nArg, skipArg)
        \/ \E f \in FileNames : GetMetadata(c, f)
        \/ \E shape \in TotalShapes : SearchPage(c, shape)
        \/ \E shape \in TotalShapes : MetadataPage(c, shape)
        \/ \E body \in MalformedBodies : SearchPageMalformed(c, body)
        \/ \E body \in MalformedBodies : MetadataPageMalformed(c, body)

SpecMalformed == InitMalformed /\ [][NextMalformed]_vars

\* Two search calls on one client, their fetches answered in any order.
QueryOf == <<"maxwell", "epstein">>

NextConcurrent ==
    \E c \in TwoCalls :
        \/ \E nArg \in LooseNArgs, skipArg \in LooseSkipArgs :
               Search(c, QueryOf[c], nArg, skipArg)
        \/ \E st \in HttpErrors : FetchNotOk(c, st)
        \/ FetchRejected(c)
        \/ \E shape \in TotalShapes : SearchPage(c, shape)

InitConcurrent ==
    /\ server \in {RankedList(T) : T \in 0..MaxTotal}
    /\ call = [c \in TwoCalls |-> IdleCall]
    /\ tool = [c \in TwoCalls |-> NoTool]
    /\ fallback = [c \in TwoCalls |-> NoFallback]
    /\ agg = NoAgg

SpecConcurrent == InitConcurrent /\ [][NextConcurrent]_vars

\* search and count against servers that report the total in different forms.
InitFormed ==
    /\ server \in FormedServers
    /\ call = [c \in CallIds |-> IdleCall]
    /\ tool = [c \in CallIds |-> NoTool]
    /\ fallback = [c \in CallIds |-> NoFallback]
    /\ agg = NoAgg

NextFormed ==
    \E c \in CallIds :
        \/ \E q \in Queries, nArg \in LooseNArgs, skipArg \in LooseSkipArgs :
               Search(c, q, nArg, skipArg)
        \/ \E q \in Queries : Count(c, q)
        \/ SearchPageFormed(c)
        \/ CountPageFormed(c)

SpecFormed == InitFormed /\ [][NextFormed]_vars

\* search with a limit against a server whose pages may be too long.
LongNArgs == {Given(1), Given(PageSize + 1), Given(MaxLimit)}

InitLong ==
    /\ server \in LongServers
    /\ call = [c \in CallIds |-> IdleCall]
    /\ tool = [c \in CallIds |-> NoTool]
    /\ fallback = [c \in CallIds |-> NoFallback]
    /\ agg = NoAgg

NextLong ==
    \E c \in CallIds :
        \/ \E q \in Queries, nArg \in LongNArgs, skipArg \in LooseSkipArgs :
               Search(c, q, nArg, skipArg)
        \/ \E st \in HttpErrors : FetchNotOk(c, st)
        \/ FetchRejected(c)
        \/ \E shape \in TotalShapes : SearchPageLoose(c, shape)

SpecLong == InitLong /\ [][NextLong]_vars

\* A multi-query search.
InitAgg ==
    /\ server = <<>>
    /\ call = [c \in CallIds |-> IdleCall]
    /\ tool = [c \in CallIds |-> NoTool]
    /\ fallback = [c \in CallIds |-> NoFallback]
    /\ agg = NoAgg

NextAgg ==
    \/ Aggregate
    \/ AggPull

SpecAgg == InitAgg /\ [][NextAgg]_vars

\* ================================================================== claims
\* The number of records the server holds, and the normalized record of rank i.
Total == Len(server)
Record(i) == SearchResult(server[i])
\* Records a .. b of the ranked list, in order (none when b < a).
Slice(a, b) == [i \in 1..Max(0, b - a + 1) |-> Record(a + i - 1)]
\* ceil(T / 10)
PagesOf(T) == (T + PageSize - 1) \div PageSize
IsSearch(c) == call[c].op = "search"
Returned(c) == call[c].pc = "returned"

\* C1: for all skip >= 0 and limit > 0, search returns exactly
\* min(limit, max(0, T - skip)) records, the i-th of them being record skip + i
\* of the ranked list.
C1_SkipLimitSlice ==
    \A c \in CallIds :
        (IsSearch(c) /\ Returned(c) /\ call[c].n > 0) =>
            call[c].ret[1] =
                Slice(call[c].skip + 1,
                      call[c].skip + Min(call[c].n, Max(0, Total - call[c].skip)))

\* C2: for 0 < skip < 10 and limit > 0, the first fetch is page 0, exactly the
\* first skip hits of page 0 are discarded, and the first record returned is hit
\* skip + 1 of page 0.
C2_MidPageSkip ==
    \A c \in CallIds :
        (IsSearch(c) /\ call[c].skip > 0 /\ call[c].skip < PageSize /\ call[c].n > 0) =>
            /\ call[c].log[1] = Request(call[c].query, 0)
            /\ Returned(c) =>
                  /\ call[c].discarded = Min(call[c].skip, Total)
                  /\ Total > call[c].skip =>
                        /\ Len(call[c].ret[1]) > 0
                        /\ call[c].ret[1][1] = SearchResult(PageHits(server, 0)[call[c].skip + 1])

\* C2 witness: skip = 5, limit = 2 over ten hits returns the 6th and 7th hit.
C2_Witness ==
    \E c \in CallIds :
        /\ IsSearch(c) /\ Returned(c)
        /\ call[c].skip = 5 /\ call[c].n = 2 /\ Total = 10
        /\ call[c].discarded = 5
        /\ call[c].ret[1] = <<Record(6), Record(7)>>

\* C3: with skip = 0, T > 0 and limit >= T, search returns all T records with
\* exactly ceil(T / 10) fetches, the k-th of them addressed at page k - 1.
C3_AllPagesInOrder ==
    \A c \in CallIds :
        (IsSearch(c) /\ call[c].skip = 0 /\ Total > 0 /\ call[c].limit >= Total) =>
            /\ \A k \in 1..Len(call[c].log) : call[c].log[k].page = k - 1
            /\ Len(call[c].log) <= PagesOf(Total)
            /\ Returned(c) =>
                  /\ call[c].ret[1] = Slice(1, Total)
                  /\ Len(call[c].log) = PagesOf(Total)

\* C3 witness: T = 15, limit = 15 is answered with two fetches, the last at page 1.
C3_Witness ==
    \E c \in CallIds :
        /\ IsSearch(c) /\ Returned(c)
        /\ call[c].skip = 0 /\ call[c].n = 15 /\ Total = 15
        /\ Len(call[c].ret[1]) = 15
        /\ Len(call[c].log) = 2 /\ call[c].log[2].page = 1

\* C4: with limit > 0, once limit records are collected the call issues no
\* further fetch: neither the step that collects the last of them nor any later
\* step adds a request, whatever is left on the page or announced by total.
C4_NoFetchAfterLimit ==
    [][\A c \in CallIds :
          (call'[c].op = "search" /\ call'[c].n > 0
           /\ call[c].pc # "idle"
           /\ Len(call'[c].results) >= call'[c].n) =>
              /\ call'[c].log = call[c].log
              /\ call'[c].pc = "returned"
              /\ call'[c].ret = <<call'[c].results>>]_vars

\* C4 witness: the limit is reached with hits of the page unread and with a
\* reported total that announces further pages.
C4_Witness ==
    \E c \in CallIds :
        /\ IsSearch(c) /\ Returned(c) /\ call[c].stop = "limit"
        /\ Len(call[c].ret[1]) = call[c].n
        /\ call[c].unread > 0
        /\ (call[c].page + 1) * PageSize < call[c].lastTotal

\* C5: a non-success response to a fetch of search or count makes the call fail
\* with an error whose message contains the status code, and search returns
\* none of the records it had collected.
C5_NotOkThrowsStatus ==
    \A c \in CallIds :
        (call[c].op \in {"search", "count"} /\ call[c].lastStatus \in HttpErrors) =>
            /\ call[c].pc = "threw"
            /\ call[c].ret = <<>>
            /\ Len(call[c].err) = 1
            /\ Contains(call[c].err[1].message, ToString(call[c].lastStatus))

\* C5 witness: a search that had collected records from an earlier page fails
\* on a later page.
C5_Witness ==
    \E c \in CallIds :
        /\ IsSearch(c) /\ call[c].pc = "threw" /\ call[c].lastStatus = 500
        /\ Len(call[c].log) = 2
        /\ Len(call[c].results) = PageSize
        /\ call[c].ret = <<>>

\* C6: count issues exactly one fetch, at page 0, whatever total is reported.
C6_CountOneFetch ==
    \A c \in CallIds :
        call[c].op = "count" =>
            /\ call[c].log = <<Request(call[c].query, 0)>>
            /\ (Returned(c) /\ ~call[c].failed) => call[c].ret = <<Total>>

\* C6 witness: count has returned a total that spans three pages.
C6_Witness ==
    \E c \in CallIds :
        /\ call[c].op = "count" /\ Returned(c)
        /\ call[c].ret = <<Total>> /\ Total > 2 * PageSize
        /\ Len(call[c].log) = 1

\* The last page the call fetched is the last one the server has to give.
Exhausted(c) ==
    \/ PageHits(server, call[c].page) = <<>>
    \/ (call[c].page + 1) * PageSize >= Total

C8_SkipPastEndEmpty ==
    \A c \in CallIds :
        (IsSearch(c) /\ call[c].skip >= Total /\ ~call[c].failed) =>
            /\ call[c].pc \in {"awaiting", "returned"}
            /\ call[c].results = <<>>
            /\ call[c].err = <<>>
            /\ Returned(c) => call[c].ret = << <<>> >>

\* C8 witness: the starting page still holds hits, all of them before the skip.
C8_Witness ==
    \E c \in CallIds :
        /\ IsSearch(c) /\ Returned(c) /\ call[c].skip >= Total
        /\ call[c].fetched > 0 /\ call[c].page > 0
        /\ call[c].ret = << <<>> >>

\* C10: getMetadata issues one request (page 0, the file name in double quotes);
\* it returns null when the page has no hits, otherwise the metadata of the
\* first hit whose ORIGIN_FILE_NAME equals the file name exactly, and of the
\* first hit of the page only when none does.
C10_MetadataBestMatch ==
    \A c \in CallIds :
        call[c].op = "getMetadata" =>
            LET hits == PageHits(server, 0)
                exact == {i \in 1..Len(hits) :
                             hits[i]._source.ORIGIN_FILE_NAME = call[c].filename}
                first == IF exact = {} THEN 1
                         ELSE CHOOSE i \in exact : \A j \in exact : i <= j
            IN  /\ call[c].log = <<[keys |-> "\"" \o call[c].filename \o "\"", page |-> 0]>>
                /\ Returned(c) =>
                      IF Len(hits) = 0 THEN call[c].ret = <<Null>>
                      ELSE call[c].ret =
                               <<[documentId |-> hits[first]._source.documentId,
                                  filename |-> hits[first]._source.ORIGIN_FILE_NAME]>>

\* C10 witness: the exact match is the second hit, behind a hit whose name
\* differs from it in case only.
C10_Witness ==
    \E c \in CallIds :
        /\ call[c].op = "getMetadata" /\ Returned(c)
        /\ call[c].filename = "EFTA1.pdf"
        /\ Len(server) = 2
        /\ server[1]._source.ORIGIN_FILE_NAME = "efta1.pdf"
        /\ server[2]._source.ORIGIN_FILE_NAME = "EFTA1.pdf"
        /\ call[c].ret = <<[documentId |-> "doc-2", filename |-> "EFTA1.pdf"]>>

\* C9: zero results and a failed query are different signals: search returns
\* an empty list or throws, the tool answers 'No documents found' without
\* isError or answers with isError and the error message; a failed fetch never
\* gives the zero-results signal and an empty result never the error signal.
C9_EmptyVersusFailed ==
    \A c \in CallIds :
        /\ (IsSearch(c) /\ call[c].failed) =>
                call[c].pc = "threw" /\ call[c].ret = <<>> /\ Len(call[c].err) = 1
        /\ (IsSearch(c) /\ Returned(c)) =>
                ~call[c].failed /\ call[c].err = <<>> /\ Len(call[c].ret) = 1
        /\ tool[c].state = "done" =>
              /\ call[c].failed =>
                    /\ tool[c].isError
                    /\ Contains(tool[c].text, call[c].err[1].message)
                    /\ ~Contains(tool[c].text, "No documents found")
              /\ (Returned(c) /\ call[c].ret = << <<>> >>) =>
                    /\ ~tool[c].isError
                    /\ Contains(tool[c].text, "No documents found")
              /\ tool[c].isError => call[c].failed
              /\ Contains(tool[c].text, "No documents found") =>
                    Returned(c) /\ call[c].ret = << <<>> >>

\* C9 witness: the tool has answered with isError for a query whose fetch
\* failed, on a server that holds no record for it.
C9_Witness ==
    \E c \in CallIds :
        /\ tool[c].state = "done" /\ tool[c].isError
        /\ call[c].failed /\ call[c].lastStatus = 403
        /\ Total = 0

\* The file names of ToolFileNames that are EFTA, digits, .pdf in any case.
EftaNames == {"EFTA1.pdf", "efta1.pdf", "EFTA12.PDF"}

\* C11: the metadata tool contacts the secondary site only after getMetadata
\* has returned null and only for a file name of the form EFTA<digits>.pdf;
\* when getMetadata finds a document or throws, no request goes to that site.
C11_FallbackOnlyAfterMiss ==
    \A c \in CallIds :
        /\ fallback[c].log # <<>> =>
              /\ call[c].op = "getMetadata"
              /\ call[c].pc = "returned" /\ call[c].ret = <<Null>>
              /\ call[c].filename \in EftaNames
              /\ Len(fallback[c].log) = 1
        /\ (call[c].pc = "threw" \/ (call[c].pc = "returned" /\ call[c].ret # <<Null>>)) =>
              fallback[c].log = <<>>
        /\ (tool[c].state = "done" /\ call[c].filename \notin EftaNames) =>
              fallback[c].log = <<>>

\* C11 witness: the secondary site has been asked about EFTA12 after a miss.
C11_Witness ==
    \E c \in CallIds :
        /\ call[c].filename = "EFTA12.PDF" /\ call[c].ret = <<Null>>
        /\ fallback[c].log = <<"https://epsteinfilez.com/?q=EFTA12&page=1">>

\* C12: a failure of the secondary lookup (a thrown fetch or a non-success
\* response) is never surfaced: the tool answers 'Document not found' without
\* isError; a failure of the primary lookup is answered with isError.
C12_FallbackFailureSwallowed ==
    \A c \in CallIds :
        (tool[c].state = "done" /\ call[c].op = "getMetadata") =>
            /\ fallback[c].outcome \in {"notok", "rejected"} =>
                  /\ ~tool[c].isError
                  /\ Contains(tool[c].text, "Document not found: ")
            /\ call[c].failed =>
                  /\ tool[c].isError
                  /\ Contains(tool[c].text, call[c].err[1].message)
            /\ tool[c].isError => call[c].failed

\* C12 witness: the fetch of the secondary site was rejected and the tool has
\* answered 'Document not found'.
C12_Witness ==
    \E c \in CallIds :
        /\ tool[c].state = "done" /\ fallback[c].outcome = "rejected"
        /\ ~tool[c].isError
        /\ tool[c].text = "Document not found: \"efta1.pdf\""

Aggregating == agg.pc \in {"running", "done"}

\* The result lists the branches were given.
AggLists == [b \in 1..Len(agg.branches) |-> agg.branches[b].list]

\* The document identifiers of a list of output records, up to position k.
OutIds(out, k) == {out[i].documentId : i \in 1..k}

\* Every document identifier some branch can give.
AllDocs(lists) == UNION {{lists[b][i] : i \in 1..Len(lists[b])} : b \in 1..Len(lists)}

\* No document occurs twice, neither within a branch nor in two branches.
DuplicateFree(lists) ==
    \A b1, b2 \in 1..Len(lists) : \A i \in 1..Len(lists[b1]) : \A j \in 1..Len(lists[b2]) :
        lists[b1][i] = lists[b2][j] => (b1 = b2 /\ i = j)

\* The records of all branches, as <<index in the branch, branch>>.
Slots(lists) == UNION {{<<i, b>> : i \in 1..Len(lists[b])} : b \in 1..Len(lists)}

\* Round-robin order: first by round (index in the branch), then by branch.
Before(p, q) == p[1] < q[1] \/ (p[1] = q[1] /\ p[2] < q[2])

\* The place of a record in the round-robin order.
Rank(lists, p) == Cardinality({q \in Slots(lists) : Before(q, p)}) + 1

\* The merged, deduplicated sequence of document identifiers of the branches:
\* one record of each branch in turn, a duplicate replaced from its own branch.
RECURSIVE MergeAll(_, _, _, _)
MergeAll(lists, pos, turn, acc) ==
    IF \A b \in 1..Len(lists) : pos[b] = Len(lists[b]) THEN acc
    ELSE IF pos[turn] = Len(lists[turn])
    THEN MergeAll(lists, pos, (turn % Len(lists)) + 1, acc)
    ELSE LET doc == lists[turn][pos[turn] + 1]
             pos1 == [pos EXCEPT ![turn] = @ + 1]
         IN  IF \E k \in 1..Len(acc) : acc[k] = doc
             THEN MergeAll(lists, pos1, turn, acc)
             ELSE MergeAll(lists, pos1, (turn % Len(lists)) + 1, Append(acc, doc))

Merged(lists) == MergeAll(lists, [b \in 1..Len(lists) |-> 0], 1, <<>>)

\* C14: in a multi-query search no documentId is output twice; a duplicate
\* candidate counts neither against skip nor against limit, so the finished
\* output has min(limit, documents left after skip) records; and the branch
\* of a duplicate is pulled again: two successive output records come from one
\* branch only when every other branch has nothing unseen left.
C14_NoDuplicateNoShortfall ==
    Aggregating =>
        /\ \A i, j \in 1..Len(agg.out) :
              agg.out[i].documentId = agg.out[j].documentId => i = j
        /\ agg.pc = "done" =>
              Len(agg.out) = Min(agg.limit, Max(0, Cardinality(AllDocs(AggLists)) - agg.skip))
        /\ agg.skip = 0 =>
              \A i \in 1..(Len(agg.out) - 1) :
                  agg.out[i].branch = agg.out[i + 1].branch =>
                      \A b \in 1..Len(AggLists) :
                          b # agg.out[i].branch =>
                              AllDocs(<<AggLists[b]>>) \subseteq OutIds(agg.out, i)

\* Both branches hold the same document first; the second branch gives its
\* next record instead and the limit of 2 is filled.
C14_Witness ==
    /\ agg.pc = "done" /\ agg.n = 2 /\ agg.skip = 0
    /\ Len(AggLists) = 2 /\ Len(agg.out) = 2
    /\ Len(AggLists[2]) >= 2 /\ AggLists[2][1] = agg.out[1].documentId
    /\ agg.out[1].branch = 1
    /\ agg.out[2].branch = 2 /\ agg.out[2].index = 2

\* C15: the merge takes one record of each non-exhausted branch in turn, in
\* branch order: with duplicate-free branches the k-th output record is the
\* (skip + k)-th record in the order (round, branch); the merge ends before
\* the limit only when all branches are exhausted.
C15_RoundRobin ==
    Aggregating =>
        /\ DuplicateFree(AggLists) =>
              \A k \in 1..Len(agg.out) :
                  Rank(AggLists, <<agg.out[k].index, agg.out[k].branch>>) = agg.skip + k
        /\ (agg.pc = "done" /\ Len(agg.out) < agg.limit) =>
              \A b \in 1..Len(agg.branches) :
                  /\ agg.branches[b].exhausted
                  /\ agg.branches[b].yielded = Len(agg.branches[b].list)

\* Two duplicate-free branches of 3 records each: the 6 output records
\* alternate branch 1, branch 2.
C15_Witness ==
    /\ agg.pc = "done" /\ agg.n = 0 /\ agg.skip = 0
    /\ AggLists = <<<<"a1", "a2", "a3">>, <<"b1", "b2", "b3">>>>
    /\ [k \in 1..Len(agg.out) |-> agg.out[k].documentId]
          = <<"a1", "b1", "a2", "b2", "a3", "b3">>

\* C16: skip and limit apply to the merged, deduplicated sequence only: every
\* branch is traversed with skip 0 and no limit, and the finished output is
\* the merged sequence without its first skip records, cut after limit.
C16_SkipLimitAtMergeLevel ==
    Aggregating =>
        /\ \A b \in 1..Len(agg.branches) :
              agg.branches[b].skip = 0 /\ agg.branches[b].limit = 0
        /\ Len(agg.out) <= agg.limit
        /\ \A k \in 1..Len(agg.out) :
              /\ agg.skip + k <= Len(Merged(AggLists))
              /\ agg.out[k].documentId = Merged(AggLists)[agg.skip + k]
        /\ agg.pc = "done" =>
              Len(agg.out) = Min(agg.limit, Max(0, Len(Merged(AggLists)) - agg.skip))

\* skip 1, limit 2 over branches that share a document: the output is the
\* second and third merged record, which the slices of the branches are not.
C16_Witness ==
    /\ agg.pc = "done" /\ agg.n = 2 /\ agg.skip = 1
    /\ AggLists = <<<<"a1", "a2">>, <<"a1", "b1", "b2">>>>
    /\ [k \in 1..Len(agg.out) |-> agg.out[k].documentId] = <<"b1", "a2">>

\* ---- helpers for a server with an unreliable total
\* The pages a search call has asked for, in the order of its fetches.
PagesAsked(c) == [k \in 1..Len(call[c].log) |-> call[c].log[k].page]

\* The k-th fetch of the call was answered with a page.
PageAnswered(c, k) ==
    k < Len(call[c].log) \/ (k = Len(call[c].log) /\ call[c].pc = "returned")

\* How many hits the first k fetches of the call were answered with.
RECURSIVE HitsServed(_, _)
HitsServed(c, k) ==
    IF k = 0 THEN 0
    ELSE HitsServed(c, k - 1) + LoosePageLen(server, PagesAsked(c)[k])

\* C17 as stated: against a server that reports the constant total T, a search
\* call makes at most ceil(T/10) page fetches, each of a higher page index
\* than the one before.
C17_AtMostCeilFetches ==
    \A c \in CallIds : IsSearch(c) =>
        /\ Len(call[c].log) <= PagesOf(server.total)
        /\ \A k \in 1..(Len(call[c].log) - 1) : PagesAsked(c)[k] < PagesAsked(c)[k + 1]

\* C17, amended: the first fetch is made whatever the total is, so the
\* number of page fetches is at most max(1, ceil(T/10)); the page index goes up
\* by one from each fetch to the next, and a call that has not ended is
\* waiting for the answer to a fetch.
C17_AtMostCeilOrOneFetch ==
    \A c \in CallIds : IsSearch(c) =>
        /\ Len(call[c].log) <= Max(1, PagesOf(server.total))
        /\ \A k \in 1..(Len(call[c].log) - 1) : PagesAsked(c)[k + 1] = PagesAsked(c)[k] + 1
        /\ call[c].pc \in {"awaiting", "returned", "threw"}

\* A total of 21 and full pages: the third fetch is the last one.
C17_Witness ==
    \E c \in CallIds :
        /\ IsSearch(c) /\ Returned(c) /\ call[c].n = 0
        /\ server.total = 21
        /\ PagesAsked(c) = <<0, 1, 2>>

\* C18: no fetch follows the page at index p, once all its hits are processed
\* without reaching the limit, when (p+1)*10 >= the total that page reported:
\* every fetch but the last is of a page p with (p+1)*10 < total, and a call
\* that read the whole of a total that is a multiple of 10 ended at the
\* boundary, with no fetch of the empty page behind it.
C18_NoFetchPastTotal ==
    \A c \in CallIds : IsSearch(c) =>
        /\ \A k \in 1..(Len(call[c].log) - 1) :
              (PagesAsked(c)[k] + 1) * PageSize < server.total
        /\ \A k \in 1..Len(call[c].log) :
              (/\ PageAnswered(c, k)
               /\ LoosePageLen(server, PagesAsked(c)[k]) > 0
               /\ (PagesAsked(c)[k] + 1) * PageSize >= server.total
               /\ call[c].stop # "limit")
              => (k = Len(call[c].log) /\ Returned(c) /\ call[c].stop = "total"
                  /\ call[c].ret = <<call[c].results>>)

\* A total of 20 read to the end: two fetches, none of page 2.
C18_Witness ==
    \E c \in CallIds :
        /\ IsSearch(c) /\ Returned(c) /\ call[c].stop = "total"
        /\ server.total = 20 /\ call[c].skip = 0
        /\ Len(call[c].ret[1]) = 20
        /\ PagesAsked(c) = <<0, 1>>

\* C19: a fetched page with zero hits ends search normally: it is the last
\* fetch of the call, the call returns the records collected so far and
\* raises no error, whatever total the pages reported.
C19_EmptyPageEnds ==
    \A c \in CallIds : IsSearch(c) =>
        \A k \in 1..Len(call[c].log) :
            (PageAnswered(c, k) /\ LoosePageLen(server, PagesAsked(c)[k]) = 0) =>
                /\ k = Len(call[c].log)
                /\ Returned(c)
                /\ call[c].stop = "empty"
                /\ call[c].err = <<>>
                /\ call[c].ret = <<call[c].results>>
                /\ call[c].fetched = HitsServed(c, k - 1)
                /\ Len(call[c].results) = call[c].fetched - call[c].discarded

\* The total says 21 but the second page is empty: the 10 records of the
\* first page are returned after two fetches.
C19_Witness ==
    \E c \in CallIds :
        /\ IsSearch(c) /\ Returned(c) /\ call[c].stop = "empty"
        /\ server.total = 21 /\ call[c].skip = 0
        /\ PagesAsked(c) = <<0, 1>>
        /\ Len(call[c].ret[1]) = 10
        /\ call[c].err = <<>>

\* A fetch of the call was answered with a non-success response.
NotOkSeen(c) == call[c].failed /\ call[c].lastStatus \in HttpErrors

\* C20: a failed fetch is not retried: once a fetch of a search, count or
\* getMetadata call got a non-success response, the call has thrown and
\* issues no further fetch.
C20_NoRetry ==
    [][\A c \in CallIds :
          NotOkSeen(c)' =>
              /\ call[c].pc' = "threw"
              /\ NotOkSeen(c) => call[c]' = call[c]]_vars

\* The second page of a search, and the only fetch of count and of
\* getMetadata, answered with a non-success response.
C20_Witness ==
    \E c \in CallIds :
        /\ NotOkSeen(c) /\ call[c].pc = "threw"
        /\ \/ IsSearch(c) /\ Len(call[c].log) = 2
           \/ call[c].op = "count" /\ Len(call[c].log) = 1

\* C21: a successful response that lacks the hits shape is treated as a page
\* with zero hits: search returns the records collected so far and
\* getMetadata returns null, and neither raises an error.
C21_MalformedAsZeroHits ==
    \A c \in CallIds : call[c].malformed =>
        /\ call[c].pc = "returned"
        /\ call[c].err = <<>>
        /\ call[c].stop = "empty"
        /\ IsSearch(c) => call[c].ret = <<call[c].results>>
        /\ call[c].op = "getMetadata" => call[c].ret = <<Null>>

\* How many fetches of the call were answered with a page.
NumAnswered(c) ==
    IF Returned(c) THEN Len(call[c].log) ELSE Max(0, Len(call[c].log) - 1)

\* The hits of the first k pages the call was answered with, in one list.
RECURSIVE HitsRead(_, _)
HitsRead(c, k) ==
    IF k = 0 THEN <<>>
    ELSE HitsRead(c, k - 1) \o LoosePageHits(server, PagesAsked(c)[k])

\* C22: the records of search are, in order, a contiguous run of the
\* concatenation of the pages the call fetched: some d hits are passed over,
\* then every hit is collected up to the end of the pages, or up to the hit
\* that reaches the limit; no hit is collected twice.
C22_ContiguousRun ==
    \A c \in CallIds : IsSearch(c) =>
        LET all == HitsRead(c, NumAnswered(c))
            res == call[c].results
        IN  /\ \E d \in 0..Len(all) :
                  /\ d + Len(res) <= Len(all)
                  /\ \A i \in 1..Len(res) : res[i] = SearchResult(all[d + i])
                  /\ (Returned(c) /\ call[c].stop # "limit") => d + Len(res) = Len(all)
                  /\ (Returned(c) /\ call[c].stop = "limit") =>
                        d + Len(res) + call[c].unread = Len(all)
            /\ \A i, j \in 1..Len(res) : res[i].documentId = res[j].documentId => i = j
            /\ Returned(c) => call[c].ret = <<res>>

\* skip 5 and limit 15 over two full pages: hits 6 .. 20 are returned in order.
C22_Witness ==
    \E c \in CallIds :
        /\ IsSearch(c) /\ Returned(c)
        /\ call[c].skip = 5 /\ call[c].n = 15
        /\ PagesAsked(c) = <<0, 1>>
        /\ Len(call[c].ret[1]) = 15
        /\ call[c].ret[1][1].documentId = "doc-6"
        /\ call[c].ret[1][15].documentId = "doc-20"

\* What search(query, n, skip) returns when no other call runs: it starts at
\* page floor(skip/10), passes over the first skip hits it reads there, and
\* collects up to n records (all that are left when n is 0).
AloneFirst(skip) == StartPage(skip) * PageSize + skip + 1
AloneResult(n, skip) ==
    Slice(AloneFirst(skip),
          IF n > 0 THEN Min(Total, AloneFirst(skip) + n - 1) ELSE Total)

\* The pages search(query, n, skip) fetches when no other call runs: from
\* page floor(skip/10) through the page of the last record it returns, or
\* through the last page of the server when the limit is not reached.
AloneLastPage(n, skip) ==
    IF n > 0 /\ AloneFirst(skip) + n - 1 <= Total
    THEN (AloneFirst(skip) + n - 2) \div PageSize
    ELSE Max(StartPage(skip), (Total - 1) \div PageSize)
AlonePages(n, skip) ==
    [k \in 1..(AloneLastPage(n, skip) - StartPage(skip) + 1) |-> StartPage(skip) + k - 1]

\* C23: search calls in progress at the same time on one client do not
\* interfere: whatever the order in which their fetches are answered, each
\* call fetches the pages and returns the records it does when run alone,
\* and its requests carry its own query.
C23_NoInterference ==
    \A c \in DOMAIN call : IsSearch(c) =>
        /\ \A k \in 1..Len(call[c].log) :
              /\ call[c].log[k].keys = call[c].query
              /\ k <= Len(AlonePages(call[c].n, call[c].skip))
              /\ call[c].log[k].page = AlonePages(call[c].n, call[c].skip)[k]
        /\ Returned(c) =>
              /\ call[c].ret = <<AloneResult(call[c].n, call[c].skip)>>
              /\ PagesAsked(c) = AlonePages(call[c].n, call[c].skip)

\* Both calls are in progress with pages answered: the first has read two
\* pages and asked for the third, the second has read one page from record 6
\* on and asked for the next.
C23_Witness ==
    /\ DOMAIN call = TwoCalls /\ Total = 21
    /\ call[1].pc = "awaiting" /\ call[2].pc = "awaiting"
    /\ call[1].n = 0 /\ call[1].skip = 0
    /\ PagesAsked(1) = <<0, 1, 2>> /\ Len(call[1].results) = 20
    /\ call[2].n = 15 /\ call[2].skip = 5
    /\ PagesAsked(2) = <<0, 1>> /\ Len(call[2].results) = 5
    /\ call[2].results[1].documentId = "doc-6"

\* C24: the first fetch of a search call asks for page floor(skip/10) and
\* every later fetch for the page after the one before: the k-th fetch asks
\* for page floor(skip/10) + k - 1, so no page is asked for twice or passed
\* over, and every fetch carries the query of the call.
C24_PagesFromStartPage ==
    \A c \in CallIds : IsSearch(c) =>
        /\ Len(call[c].log) >= 1
        /\ \A k \in 1..Len(call[c].log) :
              /\ call[c].log[k].page = (call[c].skip \div PageSize) + k - 1
              /\ call[c].log[k].keys = call[c].query
        /\ \A j, k \in 1..Len(call[c].log) :
              call[c].log[j].page = call[c].log[k].page => j = k

\* skip 13 over 21 records: pages 1 and 2 are fetched, page 0 is not.
C24_Witness ==
    \E c \in CallIds :
        /\ IsSearch(c) /\ Returned(c)
        /\ call[c].skip = 13 /\ Total = 21
        /\ PagesAsked(c) = <<1, 2>>
        /\ \A k \in 1..Len(call[c].log) : call[c].log[k].keys = "maxwell"

\* What the call becomes when its fetch is answered by the same list with the
\* total in form f.
AnsweredInForm(c, f) ==
    LET data == FormedResponse([server EXCEPT !.form = f], call[c].page) IN
    IF call[c].op = "count" THEN OnCountData(call[c], data) ELSE OnSearchData(call[c], data)

\* C25: the total is normalized to one integer: whether a page reports it as
\* the plain integer T or as {value: T, relation: r}, count returns T, and
\* search reads T and takes the same decision to stop or to fetch on.
C25_TotalNormalized ==
    \A c \in CallIds :
        /\ (call[c].op = "count" /\ Returned(c)) => call[c].ret = <<Len(server.list)>>
        /\ (IsSearch(c) /\ call[c].fetched > 0) => call[c].lastTotal = Len(server.list)
        /\ (IsSearch(c) /\ Returned(c) /\ call[c].stop = "total") =>
              (call[c].page + 1) * PageSize >= Len(server.list)
        /\ IsSearch(c) =>
              \A k \in 1..(Len(call[c].log) - 1) :
                  (call[c].log[k].page + 1) * PageSize < Len(server.list)
        /\ call[c].pc = "awaiting" =>
              \A f \in TotalForms : AnsweredInForm(c, f) = AnsweredInForm(c, "number")

\* A server that reports {value: 20, relation: "gte"}: search stops at the
\* boundary after two pages, as it does with the plain number 20.
C25_Witness ==
    \E c \in CallIds :
        /\ server.form = "gte" /\ Len(server.list) = 20
        /\ IsSearch(c) /\ Returned(c) /\ call[c].stop = "total"
        /\ call[c].lastTotal = 20
        /\ Len(call[c].log) = 2

\* C26: in every state of a search call with limit n > 0 at most n records
\* are collected, and at most n are returned, whatever the pages hold: pages
\* longer than 10 hits, totals that do not fit the pages.
C26_AtMostLimit ==
    \A c \in CallIds : (IsSearch(c) /\ call[c].n > 0) =>
        /\ Len(call[c].results) <= call[c].n
        /\ Returned(c) => Len(call[c].ret[1]) <= call[c].n
        /\ (Returned(c) /\ call[c].stop = "limit") => Len(call[c].ret[1]) = call[c].n

\* A first page of 15 hits and a limit of 11: 11 records are returned and
\* the last 4 hits of the page are not read.
C26_Witness ==
    \E c \in CallIds :
        /\ IsSearch(c) /\ Returned(c) /\ call[c].stop = "limit"
        /\ call[c].n = 11 /\ call[c].skip = 0
        /\ LoosePageLen(server, 0) = 15
        /\ Len(call[c].ret[1]) = 11
        /\ call[c].unread = 4
        /\ Len(call[c].log) = 1

\* The counters of a search call account for every hit iterated.
HitsAccounted(c) ==
    /\ c.fetched = c.discarded + Len(c.results)
    /\ c.itemsToSkipInFirstPage >= 0
    /\ c.itemsToSkipInFirstPage <= c.skip % PageSize

\* C27: within a search call every hit iterated is accounted for exactly
\* once: after every step fetched equals the hits discarded plus the records
\* collected (a hit discarded by the first-page counter is counted in fetched
\* too), itemsToSkipInFirstPage lies within 0 .. skip mod 10, and from one step
\* of the call to the next it does not increase, nor does fetched decrease.
C27_EveryHitAccounted ==
    [][\A c \in CallIds :
          call[c].op' = "search" =>
              /\ HitsAccounted(call[c])'
              /\ call[c].op = "search" =>
                    /\ call[c].itemsToSkipInFirstPage' <= call[c].itemsToSkipInFirstPage
                    /\ call[c].fetched' >= call[c].fetched
                    /\ call[c].fetched' - call[c].fetched
                          = (call[c].discarded' - call[c].discarded)
                            + (Len(call[c].results') - Len(call[c].results))]_vars

\* skip 5 and no limit over 21 records: the first-page counter passes over 5
\* hits and runs down to 0, the other 16 are collected, and fetched is 21.
C27_Witness ==
    \E c \in CallIds :
        /\ IsSearch(c) /\ Returned(c)
        /\ call[c].skip = 5 /\ call[c].n = 0 /\ Total = 21
        /\ call[c].itemsToSkipInFirstPage = 0
        /\ call[c].fetched = 21
        /\ call[c].discarded = 5
        /\ Len(call[c].results) = 16

====
